---- MODULE Spec2Model ----
(***************************************************************************)
(* MediFind: the consultation service (src/src/services/                   *)
(* consultationService.ts).  The remote document collections               *)
(* (availability, consultations, doctors, prescriptions) are the state;    *)
(* each app instance runs bookConsultation as a sequence of steps          *)
(* separated by its awaits, the slot reservation running inside a          *)
(* Firestore transaction (optimistic: the documents read are validated at  *)
(* commit, the update function is re-run on a conflict).                   *)
(* The application state cache (the zustand store, src/unnamed/part_002)   *)
(* is the in-memory state, the AsyncStorage keys it mirrors to, and the    *)
(* store calls whose write is still in flight.                             *)
(* The booking screen and the consultations history screen are the         *)
(* handlers that join the two: each is a sequence of steps separated by    *)
(* its awaits, with the local notifications it posts; searchMedicine       *)
(* (src/unnamed/part_001) is its sequence of lookups.                      *)
(***************************************************************************)
EXTENDS Integers, Sequences, FiniteSets, TLC

\* ---------------------------------------------------------------- bounds
\* Number of app instances, each issuing one bookConsultation.
NumClients == 3
\* Attempts the transaction substrate makes before giving up on conflicts.
MaxAttempts == 2

Clients == 1..NumClients

\* ------------------------------------------------------------- constants
\* duration: 30, // Default 30 minutes
DURATION == 30

Statuses == {"scheduled", "ongoing", "completed", "cancelled"}

ErrAvailabilityNotFound == "Availability not found"
ErrSlotNotFound == "Time slot not found"
ErrSlotAlreadyBooked == "This slot has already been booked"
ErrBookingFailed == "Failed to book consultation. Please try again."
ErrDoctorNotFound == "Doctor not found"
ErrFetchDoctor == "Failed to fetch doctor details. Please try again."
ErrConsultationNotFound == "Consultation not found"
ErrFetchConsultation == "Failed to fetch consultation. Please try again."
ErrPrescriptionNotFound == "Prescription not found"
ErrFetchPrescription == "Failed to fetch prescription. Please try again."
ErrUpdateStatus == "Failed to update consultation status."
ErrCancel == "Failed to cancel consultation."

\* Errors raised by the document service itself (not by this repository).
FirestoreNotFound == "firestore/not-found"
FirestoreUnavailable == "firestore/unavailable"
FirestoreAborted == "firestore/aborted"

NoError == "none"
\* A field that is not set (JavaScript undefined).
Undefined == "undefined"

\* ---------------------------------------------------------------- inputs
DoctorIds == {"d1", "d2"}
Dates == {"2025-11-29"}
PrescriptionIds == {"rx1", "rx2"}

\* The (doctorId, selectedDate, selectedSlot.startTime) a booking may ask for:
\* start times the doctor offers on some days and not on others, and a
\* doctor with no availability document for the day.
Requests ==
  { <<"d1", "2025-11-29", "09:00">>, <<"d1", "2025-11-29", "09:30">>,
    <<"d1", "2025-11-29", "10:00">>, <<"d2", "2025-11-29", "09:00">> }

\* The id of a new document reference: unique per call of doc().
AutoId(p) == "c" \o ToString(p)
ConsultationIds == {AutoId(p) : p \in Clients}
PatientId(p) == "u" \o ToString(p)

\* `${doctorId}_${date}`
AvailabilityDocId(doctorId, date) == doctorId \o "_" \o date
AvailabilityDocIds == {AvailabilityDocId(d, dt) : d \in DoctorIds, dt \in Dates}

NoDoc == [exists |-> FALSE]

TimeSlot(start, end) ==
  [startTime |-> start, endTime |-> end, isBooked |-> FALSE,
   consultationId |-> Undefined]

\* The slot sequences an availability document starts with.
SlotConfigs ==
  { << TimeSlot("09:00", "09:30"), TimeSlot("09:30", "10:00"),
       TimeSlot("10:00", "10:30") >>,
    << TimeSlot("09:00", "09:30"), TimeSlot("09:00", "09:30") >> }

VARIABLES
  availability,   \* collection 'availability': doc id -> document or NoDoc
  consultations,  \* collection 'consultations': doc id -> document or NoDoc
  doctors,        \* collection 'doctors': the ids of the documents in it
  prescriptions,  \* collection 'prescriptions': the ids of the documents in it
  book,           \* per app instance: its bookConsultation call
  opResult,       \* the outcome of the last fetch / status call
  state,          \* the zustand store: field -> in-memory value
  storage,        \* AsyncStorage: key -> stored string, or Absent
  calls,          \* store calls awaiting their AsyncStorage promise
  hydration,      \* the hydrate() call: idle, or the values its reads got
  settled,        \* the store call whose promise settled last
  trace,          \* bookkeeping of the inputs given so far
  bookingScreen,  \* handleBookConsultation of the booking screen
  historyScreen,  \* loadConsultations / handleRefresh of the history screen
  search,         \* the searchMedicine call
  notifications   \* the local notifications posted or scheduled

remoteVars ==
  <<availability, consultations, doctors, prescriptions, book, opResult>>
storeVars == <<state, storage, calls, hydration, settled, trace>>
appVars == <<bookingScreen, historyScreen, search, notifications>>
vars == <<remoteVars, storeVars, appVars>>

Idle ==
  [pc |-> "idle", doctorId |-> Undefined, selectedDate |-> Undefined,
   startTime |-> Undefined, consultationId |-> Undefined, attempts |-> 0,
   readVersion |-> -1, slots |-> <<>>, thrown |-> NoError, error |-> NoError,
   returned |-> NoDoc]

\* The remote collections before any call, the doctor collection holding
\* the documents `ids`.
InitRemoteOver(ids) ==
  /\ availability \in
       { [id \in AvailabilityDocIds |->
            IF id = AvailabilityDocId("d1", "2025-11-29")
              THEN [exists |-> TRUE, slots |-> cfg, version |-> 0]
              ELSE NoDoc] : cfg \in SlotConfigs }
  /\ consultations = [c \in ConsultationIds |-> NoDoc]
  /\ doctors = ids
  /\ prescriptions = {"rx1"}
  /\ book = [p \in Clients |-> Idle]
  /\ opResult = [op |-> "none", cause |-> "none", error |-> NoError]

InitRemote == InitRemoteOver({"d1"})

\* ------------------------------------------------------ bookConsultation

AgoraChannelName_noId(consultationId) == "consultation_"

\* line 160: `consultation_${consultationId}`
AgoraChannelName(consultationId) == "consultation_" \o consultationId

\* lines 163-178: the consultation object built before the transaction
\* (the fields that are copied through from bookingData unread are left out).
NewConsultation(p) ==
  [exists |-> TRUE,
   patientId |-> PatientId(p),
   doctorId |-> book[p].doctorId,
   scheduledTime |-> <<book[p].selectedDate, book[p].startTime>>,
   duration |-> DURATION,
   status |-> "scheduled",
   agoraChannelName |-> AgoraChannelName(book[p].consultationId)]

\* slots.findIndex(s => s.startTime === selectedSlot.startTime): the first
\* matching position (1-based here), -1 when there is none.
FindIndex(slots, startTime) ==
  IF \E i \in 1..Len(slots) : slots[i].startTime = startTime
    THEN CHOOSE i \in 1..Len(slots) :
           /\ slots[i].startTime = startTime
           /\ \A j \in 1..(i - 1) : slots[j].startTime # startTime
    ELSE -1

SlotIsBooked_unguarded(slot) == FALSE

\* line 202: if (slots[slotIndex].isBooked)
SlotIsBooked(slot) == slot.isBooked

\* lines 189-217: the update function applied to the document it read.
\* Gives the error it throws, or the slot sequence it hands to
\* transaction.update.
UpdateFunction(p, doc) ==
  IF ~doc.exists
    THEN [thrown |-> ErrAvailabilityNotFound, slots |-> <<>>]
    ELSE LET slots == doc.slots
             slotIndex == FindIndex(slots, book[p].startTime)
         IN  IF slotIndex = -1
               THEN [thrown |-> ErrSlotNotFound, slots |-> <<>>]
             ELSE IF SlotIsBooked(slots[slotIndex])
               THEN [thrown |-> ErrSlotAlreadyBooked, slots |-> <<>>]
             ELSE [thrown |-> NoError,
                   slots |-> [slots EXCEPT
                                ![slotIndex].isBooked = TRUE,
                                ![slotIndex].consultationId =
                                   book[p].consultationId]]

BookCatch_allGeneric(thrown) == ErrBookingFailed

\* lines 226-232: the catch block of bookConsultation.
BookCatch(thrown) ==
  IF thrown = ErrSlotAlreadyBooked THEN thrown ELSE ErrBookingFailed

\* lines 226-232: the call ends with the caught error replaced by BookCatch.
Failed(p, thrown) ==
  [book[p] EXCEPT !.pc = "done", !.thrown = thrown, !.error = BookCatch(thrown),
                  !.slots = <<>>, !.readVersion = -1]

\* lines 151-181: allocate the consultation reference, build the
\* consultation, call runTransaction.
BookStart(p) ==
  /\ book[p].pc = "idle"
  /\ \E r \in Requests :
       book' = [book EXCEPT ![p] =
                  [Idle EXCEPT !.pc = "get", !.doctorId = r[1],
                               !.selectedDate = r[2], !.startTime = r[3],
                               !.consultationId = AutoId(p)]]
  /\ UNCHANGED <<availability, consultations, doctors, prescriptions, opResult>>
  /\ UNCHANGED <<storeVars, appVars>>

\* lines 187-217: transaction.get resolves and the update function runs to
\* its end: it throws, or leaves its two writes buffered in the transaction.
TxGet(p) ==
  /\ book[p].pc = "get"
  /\ LET doc == availability[AvailabilityDocId(book[p].doctorId,
                                                book[p].selectedDate)]
         r == UpdateFunction(p, doc)
     IN  book' = [book EXCEPT ![p] =
                    IF r.thrown # NoError
                      THEN Failed(p, r.thrown)
                      ELSE [book[p] EXCEPT !.pc = "commit",
                                           !.readVersion = doc.version,
                                           !.slots = r.slots]]
  /\ UNCHANGED <<availability, consultations, doctors, prescriptions, opResult>>
  /\ UNCHANGED <<storeVars, appVars>>

TargetDocId(p) == AvailabilityDocId(book[p].doctorId, book[p].selectedDate)

VersionUnchanged_blind(p) == TRUE

\* line 181: the commit validates that the document read is unchanged.
VersionUnchanged(p) ==
  availability[TargetDocId(p)].version = book[p].readVersion

ConsultationsAfterCommit_noSet(p) == consultations

\* line 217: transaction.set(consultationRef, consultation)
ConsultationsAfterCommit(p) ==
  [consultations EXCEPT ![book[p].consultationId] = NewConsultation(p)]

\* lines 211-214: transaction.update(availabilityRef, {slots, updatedAt})
AvailabilityAfterCommit(p) ==
  [availability EXCEPT ![TargetDocId(p)] =
     [@ EXCEPT !.slots = book[p].slots, !.version = @ + 1]]

AvailabilityAfterAbort_partial(p) ==
  IF book[p].pc = "commit" THEN AvailabilityAfterCommit(p) ELSE availability

\* line 181: a transaction that fails applies none of its buffered writes.
AvailabilityAfterAbort(p) == availability

\* lines 218-225: the transaction commits both writes; the consultation is
\* returned with its id.
TxCommit(p) ==
  /\ book[p].pc = "commit"
  /\ VersionUnchanged(p)
  /\ availability' = AvailabilityAfterCommit(p)
  /\ consultations' = ConsultationsAfterCommit(p)
  /\ book' = [book EXCEPT ![p] =
                [@ EXCEPT !.pc = "done", !.slots = <<>>, !.readVersion = -1,
                          !.returned = [id |-> book[p].consultationId]
                                         @@ NewConsultation(p)]]
  /\ UNCHANGED <<doctors, prescriptions, opResult>>
  /\ UNCHANGED <<storeVars, appVars>>

CanRetry_never(p) == FALSE

\* line 181: runTransaction re-runs the update function after a conflict.
CanRetry(p) == book[p].attempts + 1 < MaxAttempts

\* line 181: the commit finds the document changed; the update function is
\* run again from transaction.get.
TxRetry(p) ==
  /\ book[p].pc = "commit"
  /\ ~VersionUnchanged(p)
  /\ CanRetry(p)
  /\ book' = [book EXCEPT ![p] =
                [@ EXCEPT !.pc = "get", !.attempts = @ + 1, !.slots = <<>>,
                          !.readVersion = -1]]
  /\ UNCHANGED <<availability, consultations, doctors, prescriptions, opResult>>
  /\ UNCHANGED <<storeVars, appVars>>

\* line 181, 226-232: the attempts are used up; runTransaction rejects.
TxExhausted(p) ==
  /\ book[p].pc = "commit"
  /\ ~VersionUnchanged(p)
  /\ ~CanRetry(p)
  /\ availability' = AvailabilityAfterAbort(p)
  /\ book' = [book EXCEPT ![p] = Failed(p, FirestoreAborted)]
  /\ UNCHANGED <<consultations, doctors, prescriptions, opResult>>
  /\ UNCHANGED <<storeVars, appVars>>

\* line 181, 226-232: the network fails while the transaction is in flight.
TxAbort(p) ==
  /\ book[p].pc \in {"get", "commit"}
  /\ availability' = AvailabilityAfterAbort(p)
  /\ book' = [book EXCEPT ![p] = Failed(p, FirestoreUnavailable)]
  /\ UNCHANGED <<consultations, doctors, prescriptions, opResult>>
  /\ UNCHANGED <<storeVars, appVars>>

\* --------------------------------------------------- consultation status

\* lines 305-311: doc(consultationId).update({status, updatedAt}); update
\* rejects when the document does not exist.
StatusWritten(consultationId, status) ==
  [consultations EXCEPT ![consultationId].status = status]

\* What the update of lines 305-311 raises: nothing, not-found for a missing
\* document, unavailable when the network fails.
UpdateRaises(consultationId, net) ==
  IF ~net THEN FirestoreUnavailable
  ELSE IF ~consultations[consultationId].exists THEN FirestoreNotFound
  ELSE NoError

Cause(raised) ==
  IF raised = NoError THEN "none"
  ELSE IF raised = FirestoreUnavailable THEN "network" ELSE "missing"

\* lines 299-318: updateConsultationStatus(consultationId, status)
UpdateConsultationStatus(consultationId, status) ==
  \E net \in BOOLEAN :
    LET raised == UpdateRaises(consultationId, net) IN
    /\ consultations' = IF raised = NoError
                          THEN StatusWritten(consultationId, status)
                          ELSE consultations
    /\ opResult' = [op |-> "updateConsultationStatus", cause |-> Cause(raised),
                    error |-> IF raised = NoError THEN NoError
                              ELSE ErrUpdateStatus]
    /\ UNCHANGED <<availability, doctors, prescriptions, book>>
    /\ UNCHANGED <<storeVars, appVars>>

AvailabilityAfterCancel_freesSlot(consultationId) ==
  [id \in DOMAIN availability |->
     IF ~availability[id].exists THEN availability[id]
     ELSE [availability[id] EXCEPT
             !.slots = [i \in DOMAIN @ |->
                          IF @[i].consultationId = consultationId
                            THEN [@[i] EXCEPT !.isBooked = FALSE,
                                              !.consultationId = Undefined]
                            ELSE @[i]]]]

\* lines 323-334: cancelConsultation writes to the consultations
\* collection only; the availability collection is not touched.
AvailabilityAfterCancel(consultationId) == availability

\* lines 323-334: cancelConsultation(consultationId)
CancelConsultation(consultationId) ==
  \E net \in BOOLEAN :
    LET raised == UpdateRaises(consultationId, net) IN
    /\ consultations' = IF raised = NoError
                          THEN StatusWritten(consultationId, "cancelled")
                          ELSE consultations
    /\ availability' = AvailabilityAfterCancel(consultationId)
    /\ opResult' = [op |-> "cancelConsultation", cause |-> Cause(raised),
                    error |-> IF raised = NoError THEN NoError ELSE ErrCancel]
    /\ UNCHANGED <<doctors, prescriptions, book>>
    /\ UNCHANGED <<storeVars, appVars>>

\* ------------------------------------------------------------ fetch by id

\* lines 66-68, 277-279, 377-379: what the try block raises: the not-found
\* error of the function for a missing document, unavailable when the
\* network fails.
FetchRaises(exists, net, notFound) ==
  IF ~net THEN FirestoreUnavailable
  ELSE IF ~exists THEN notFound
  ELSE NoError

\* lines 78-81, 290-293, 389-392: the catch block replaces whatever was
\* raised by the function's own message.
FetchCatch(raised, generic) ==
  IF raised = NoError THEN NoError ELSE generic

FetchCause(exists, net) ==
  IF ~net THEN "network" ELSE IF ~exists THEN "missing" ELSE "none"

\* lines 58-82: fetchDoctorById(doctorId)
FetchDoctorById(doctorId) ==
  \E net \in BOOLEAN :
    /\ opResult' =
         [op |-> "fetchDoctorById",
          cause |-> FetchCause(doctorId \in doctors, net),
          error |-> FetchCatch(FetchRaises(doctorId \in doctors, net,
                                           ErrDoctorNotFound),
                               ErrFetchDoctor)]
    /\ UNCHANGED <<availability, consultations, doctors, prescriptions, book>>
    /\ UNCHANGED <<storeVars, appVars>>

\* lines 268-294: fetchConsultationById(consultationId)
FetchConsultationById(consultationId) ==
  \E net \in BOOLEAN :
    /\ opResult' =
         [op |-> "fetchConsultationById",
          cause |-> FetchCause(consultations[consultationId].exists, net),
          error |-> FetchCatch(FetchRaises(consultations[consultationId].exists,
                                           net, ErrConsultationNotFound),
                               ErrFetchConsultation)]
    /\ UNCHANGED <<availability, consultations, doctors, prescriptions, book>>
    /\ UNCHANGED <<storeVars, appVars>>

\* lines 368-393: fetchPrescriptionById(prescriptionId)
FetchPrescriptionById(prescriptionId) ==
  \E net \in BOOLEAN :
    /\ opResult' =
         [op |-> "fetchPrescriptionById",
          cause |-> FetchCause(prescriptionId \in prescriptions, net),
          error |-> FetchCatch(FetchRaises(prescriptionId \in prescriptions, net,
                                           ErrPrescriptionNotFound),
                               ErrFetchPrescription)]
    /\ UNCHANGED <<availability, consultations, doctors, prescriptions, book>>
    /\ UNCHANGED <<storeVars, appVars>>

\* ------------------------------------------------------- doctor catalogue
ErrFetchDoctors == "Failed to fetch doctors. Please try again."
ErrFetchAvailability == "Failed to fetch availability. Please try again."

\* The documents the doctor collection may hold, in the order a query
\* without orderBy returns them (by document id).
CollectionOrder == <<"d1", "d2", "d3", "d4", "d5", "d6">>
CatalogIds == {CollectionOrder[i] : i \in DOMAIN CollectionOrder}

\* doc.data() of each: equal ratings, a doctor that is not verified, a
\* document without a rating, and a rating of 0.
DoctorData(id) ==
  IF id = "d1" THEN [rating |-> 4, verified |-> TRUE]
  ELSE IF id = "d2" THEN [rating |-> 5, verified |-> TRUE]
  ELSE IF id = "d3" THEN [rating |-> 4, verified |-> TRUE]
  ELSE IF id = "d4" THEN [rating |-> 5, verified |-> FALSE]
  ELSE IF id = "d5" THEN [verified |-> TRUE]
  ELSE [rating |-> 0, verified |-> TRUE]

\* lines 35-40: snapshot.docs.map(doc => ({id: doc.id, ...doc.data()}))
DoctorsSnapshot(ids) ==
  LET present == SelectSeq(CollectionOrder, LAMBDA d : d \in ids)
  IN  [i \in DOMAIN present |->
         [id |-> present[i]] @@ DoctorData(present[i])]

\* (x.rating || 0)
RatingOf(doc) == IF "rating" \in DOMAIN doc THEN doc.rating ELSE 0

InsertByRating_beforeEqual(sorted, doc) ==
  LET n == Cardinality({i \in DOMAIN sorted :
                          RatingOf(sorted[i]) > RatingOf(doc)})
  IN  SubSeq(sorted, 1, n) \o <<doc>> \o SubSeq(sorted, n + 1, Len(sorted))

\* One step of the stable sort with (a, b) => (b.rating || 0) -
\* (a.rating || 0): doc goes after every entry that does not compare
\* greater than it.
InsertByRating(sorted, doc) ==
  LET n == Cardinality({i \in DOMAIN sorted :
                          RatingOf(sorted[i]) >= RatingOf(doc)})
  IN  SubSeq(sorted, 1, n) \o <<doc>> \o SubSeq(sorted, n + 1, Len(sorted))

RECURSIVE SortByRating(_)
\* line 45: .sort((a, b) => (b.rating || 0) - (a.rating || 0))
SortByRating(docs) ==
  IF docs = <<>> THEN <<>>
  ELSE InsertByRating(SortByRating(SubSeq(docs, 1, Len(docs) - 1)),
                      docs[Len(docs)])

\* lines 43-45: the verified doctors, sorted.
FetchDoctorsResult(ids) ==
  SortByRating(SelectSeq(DoctorsSnapshot(ids),
                         LAMBDA doc : doc.verified = TRUE))

\* lines 28-53: fetchDoctors()
FetchDoctors ==
  \E net \in BOOLEAN :
    /\ opResult' =
         [op |-> "fetchDoctors",
          cause |-> IF net THEN "none" ELSE "network",
          error |-> IF net THEN NoError ELSE ErrFetchDoctors,
          returned |-> IF net THEN FetchDoctorsResult(doctors) ELSE <<>>]
    /\ UNCHANGED <<availability, consultations, doctors, prescriptions, book>>
    /\ UNCHANGED <<storeVars, appVars>>

\* The dates fetchDoctorAvailability is asked about: one the doctor has
\* configured, one nobody has.
AvailabilityDates == Dates \cup {"2099-01-01"}

\* .collection('availability').doc(docId).get()
AvailabilityDoc(docId) ==
  IF docId \in DOMAIN availability THEN availability[docId] ELSE NoDoc

AvailabilityRaises_notFound(exists, net) ==
  FetchRaises(exists, net, ErrAvailabilityNotFound)

\* lines 123-136: what the try block raises: nothing for a missing
\* document (line 131 returns []), unavailable when the network fails.
AvailabilityRaises(exists, net) ==
  IF ~net THEN FirestoreUnavailable ELSE NoError

\* lines 117-140: fetchDoctorAvailability(doctorId, date)
FetchDoctorAvailability(doctorId, date) ==
  \E net \in BOOLEAN :
    LET doc == AvailabilityDoc(AvailabilityDocId(doctorId, date))
        raised == AvailabilityRaises(doc.exists, net)
    IN
    /\ opResult' =
         [op |-> "fetchDoctorAvailability",
          cause |-> FetchCause(TRUE, net),
          error |-> FetchCatch(raised, ErrFetchAvailability),
          args |-> <<doctorId, date>>,
          returned |-> IF raised = NoError /\ doc.exists
                         THEN doc.slots ELSE <<>>]
    /\ UNCHANGED <<availability, consultations, doctors, prescriptions, book>>
    /\ UNCHANGED <<storeVars, appVars>>

\* The app instance whose screens and cache are modelled.
ThisClient == 1

\* bookConsultation as this app instance runs it when no other instance
\* books: no commit conflict arises, so no retry.
NextThisBooking ==
  \/ BookStart(ThisClient)
  \/ TxGet(ThisClient)
  \/ TxCommit(ThisClient)
  \/ TxAbort(ThisClient)

NextCatalogue ==
  \/ FetchDoctors
  \/ \E d \in DoctorIds, dt \in AvailabilityDates :
       FetchDoctorAvailability(d, dt)

\* ================================================ application state cache
\* (src/unnamed/part_002, lines 87-262)

\* ---------------------------------------------------------------- bounds
\* Store calls that may be awaiting AsyncStorage at the same time.
MaxInFlight == 2
\* Store calls (mutations and hydrate) made in one run.
MaxStoreCalls == 3

\* ------------------------------------------------------------- constants
\* .slice(0, 50); // Keep last 50
HISTORY_LIMIT == 50

\* The keys hydrate() reads, and the store field each is loaded into.
HydratedKeys ==
  { "theme", "searchHistory", "favorites", "reminders", "currentUser",
    "doctors", "consultations", "prescriptions" }
StorageKeys == HydratedKeys \cup {"doctorsCachedAt"}

Field(key) == IF key = "theme" THEN "isDarkMode" ELSE key

\* null: the value of a key that is not stored, and of no current user.
Absent == [kind |-> "absent"]
Null == [kind |-> "null"]
\* A read the storage rejected.
Rejected == [kind |-> "rejected"]
\* A stored string that is not JSON.
Corrupt == [kind |-> "text", value |-> "{bad"]

\* The value of each store field at creation (lines 88-100).
Default(key) ==
  IF key = "theme" THEN FALSE
  ELSE IF key = "currentUser" THEN Null
  ELSE <<>>

\* A Date, and the string JSON.stringify turns it into.
Date(t) == [date |-> t]
DateFields == {"time", "scheduledTime"}

\* What JSON.stringify keeps of one entity: a Date becomes a string.
EntityToJSON(e) ==
  [f \in DOMAIN e |->
     IF f \in DateFields /\ DOMAIN e[f] = {"date"}
       THEN [iso |-> e[f].date] ELSE e[f]]

\* JSON.stringify(value) of the value of store field `key`.
Stringify(key, value) ==
  [kind |-> "json",
   value |-> IF key \in {"theme", "currentUser"}
               THEN value
               ELSE [i \in DOMAIN value |-> EntityToJSON(value[i])]]

\* JSON.parse(text): throws on a string that is not JSON.
ParseThrows(text) == text.kind # "json"
Parse(text) == text.value

\* ---------------------------------------------------------------- inputs
\* The keys whose getItem may be rejected during hydrate().
RejectableKeys == {"theme", "favorites"}

Medicine(id, timestamp) == [id |-> id, timestamp |-> timestamp]

\* {...medicine, isFavorite: true}
AsFavorite(medicine) ==
  [f \in DOMAIN medicine \cup {"isFavorite"} |->
     IF f = "isFavorite" THEN TRUE ELSE medicine[f]]

\* The entities of lines 24-31 and 628-698, with the fields the store
\* operations and the serialization tell apart: the id, one plain field,
\* and the Date fields.
Reminder(id, t) ==
  [id |-> id, medicineName |-> "Paracetamol", time |-> Date(t),
   enabled |-> TRUE]
User(id) == [id |-> id, name |-> "Asha"]
Doctor(id) == [id |-> id, verified |-> TRUE]
Consultation(id, t) ==
  [id |-> id, status |-> "scheduled", scheduledTime |-> Date(t)]
Prescription(id) == [id |-> id, consultationId |-> "c1"]

AddToHistory_noFilter(history, medicine) ==
  SubSeq(<<medicine>> \o history, 1,
         IF Len(history) + 1 < HISTORY_LIMIT
           THEN Len(history) + 1 ELSE HISTORY_LIMIT)

AddToHistory_keepOldest(history, medicine) ==
  LET filtered == SelectSeq(history, LAMBDA m : m.id # medicine.id)
      all == <<medicine>> \o filtered
  IN  IF Len(all) <= HISTORY_LIMIT THEN all
      ELSE <<medicine>> \o SubSeq(filtered, 2, Len(filtered))

\* lines 108-114: the new history addToHistory computes: the medicine, then
\* the entries with another id, cut to the first HISTORY_LIMIT.
AddToHistoryResult(history, medicine) ==
  LET filtered == SelectSeq(history, LAMBDA m : m.id # medicine.id)
      all == <<medicine>> \o filtered
  IN  SubSeq(all, 1, IF Len(all) < HISTORY_LIMIT THEN Len(all)
                     ELSE HISTORY_LIMIT)

\* The history after addToHistory was called with n medicines never seen
\* before (ids 1..n), one after the other, on the empty store, for n below
\* HISTORY_LIMIT: the newest first, nothing cut.
FreshRun(n) == [i \in 1..n |-> Medicine(n - i + 1, 0)]

\* The numbers of first searches a session may have behind it at its start.
InitRuns == {0, HISTORY_LIMIT - 1}

\* The store at creation (lines 88-100), with the search history of n
\* first searches in memory and `user` the current user, over the
\* AsyncStorage contents `disk`.
StoreWith(n, user, disk) ==
  /\ state = [isDarkMode |-> FALSE, searchHistory |-> FreshRun(n),
              favorites |-> <<>>, reminders |-> <<>>,
              currentUser |-> user, doctors |-> <<>>,
              consultations |-> <<>>, prescriptions |-> <<>>]
  /\ storage = disk
  /\ trace = [nextMedicineId |-> n + 1, started |-> 0, freshRun |-> n,
              hydrated |-> FALSE, toggled |-> 0, prior |-> <<>>]
  /\ calls = <<>>
  /\ hydration = [pc |-> "idle"]
  /\ settled = [op |-> "none", key |-> "none", outcome |-> "none"]

StoreOver(n, disk) == StoreWith(n, Null, disk)

\* The store over an empty AsyncStorage, or with the search history of n
\* first searches in memory and stored.
StoreAfter(n) ==
  StoreOver(n, [k \in StorageKeys |->
                  IF k = "searchHistory" /\ n > 0
                    THEN Stringify(k, FreshRun(n)) ELSE Absent])

\* What a key may hold when the app starts: nothing, a string that is not
\* JSON, or what an earlier session stored under it.
StoredKinds == {"absent", "corrupt", "valid"}

\* A value an earlier session left in each store field.
EarlierValue(key) ==
  IF key = "theme" THEN TRUE
  ELSE IF key = "searchHistory" THEN <<Medicine(1, 0)>>
  ELSE IF key = "favorites" THEN <<AsFavorite(Medicine(1, 0))>>
  ELSE IF key = "reminders" THEN <<Reminder("r1", 8)>>
  ELSE IF key = "currentUser" THEN User("u1")
  ELSE IF key = "doctors" THEN <<Doctor("d1")>>
  ELSE IF key = "consultations" THEN <<Consultation("c1", 9)>>
  ELSE <<Prescription("rx1")>>

Stored(key, kind) ==
  IF kind = "absent" THEN Absent
  ELSE IF kind = "corrupt" THEN Corrupt
  ELSE Stringify(key, EarlierValue(key))

\* No screen handler under way, no search made, nothing notified.
InitApp ==
  /\ bookingScreen = [pc |-> "idle"]
  /\ historyScreen = [pc |-> "idle"]
  /\ search = [pc |-> "idle"]
  /\ notifications = {}

\* The remote collections with nothing booked and no call under way.
RemoteAtRest ==
  /\ InitRemote
  /\ InitApp
  /\ Len(availability[AvailabilityDocId("d1", "2025-11-29")].slots) = 3

Init == InitRemote /\ InitApp /\ StoreAfter(0)

\* The cache of a session that starts after some first searches.
InitHistory == RemoteAtRest /\ \E n \in InitRuns : StoreAfter(n)

\* The cache of a session in which the user of this app instance has
\* signed in (setCurrentUser(user) has completed).
InitSignedIn ==
  /\ InitRemote
  /\ InitApp
  /\ LET user == User(PatientId(ThisClient)) IN
       StoreWith(0, user,
                 [k \in StorageKeys |->
                    IF k = "currentUser" THEN Stringify(k, user)
                    ELSE Absent])

\* The cache of a session that starts over what AsyncStorage holds.
InitHydrate ==
  /\ RemoteAtRest
  /\ \E kinds \in [HydratedKeys -> StoredKinds] :
       StoreOver(0, [k \in StorageKeys |->
                       IF k \in HydratedKeys THEN Stored(k, kinds[k])
                       ELSE Absent])

\* ----------------------------------------------------- store call steps
\* A setItem / removeItem the call is awaiting.
SetItem(key, value) == [key |-> key, item |-> value]
RemoveItem(key) == [key |-> key, item |-> Absent]

\* set({field: value}) followed by `await AsyncStorage...`: the in-memory
\* value is replaced at once, the call then waits for the storage.  The
\* call records what it was given, what it replaced, and whether hydrate()
\* was waiting for its reads when it was made.
Mutate(op, key, value, write, args) ==
  /\ Len(calls) < MaxInFlight
  /\ trace.started < MaxStoreCalls
  /\ state' = [state EXCEPT ![Field(key)] = value]
  /\ calls' = Append(calls, [op |-> op, key |-> key, write |-> write,
                            before |-> state[Field(key)], after |-> value,
                            args |-> args,
                            hydrating |-> hydration.pc = "reading"])

Remove(seq, i) == SubSeq(seq, 1, i - 1) \o SubSeq(seq, i + 1, Len(seq))

\* The handler that awaits the store call continues when the call settles:
\* BookingScreen.tsx line 131 (`await addConsultation(consultation)`) and
\* ConsultationsHistoryScreen.tsx lines 59, 75 (`await setConsultations`).
Resumed(call, outcome) ==
  /\ bookingScreen' =
       IF /\ bookingScreen.pc = "caching"
          /\ call.op = "addConsultation"
          /\ call.args = bookingScreen.consultation
         THEN [bookingScreen EXCEPT
                 !.pc = IF outcome = "fulfilled" THEN "cached" ELSE "failed"]
         ELSE bookingScreen
  /\ historyScreen' =
       IF /\ historyScreen.pc = "storing"
          /\ call.op = "setConsultations"
          /\ call.args = historyScreen.loaded
         THEN [pc |-> "idle"]
         ELSE historyScreen
  /\ UNCHANGED <<search, notifications>>

\* lines 171-172: setDoctors awaits a second setItem after the first.
HasSecondWrite(call) == call.op = "setDoctors" /\ call.write.key = "doctors"

\* AsyncStorage performs the write call i awaits; the call goes on to its
\* next await or returns.
StoreWrite(i) ==
  /\ i \in DOMAIN calls
  /\ storage' = [storage EXCEPT ![calls[i].write.key] = calls[i].write.item]
  /\ IF HasSecondWrite(calls[i])
       THEN /\ calls' = [calls EXCEPT ![i].write =
                           SetItem("doctorsCachedAt",
                                   [kind |-> "text", value |-> "now"])]
            /\ UNCHANGED settled
            /\ UNCHANGED appVars
       ELSE /\ calls' = Remove(calls, i)
            /\ settled' = [op |-> calls[i].op, key |-> calls[i].key,
                           outcome |-> "fulfilled"]
            /\ Resumed(calls[i], "fulfilled")
  /\ UNCHANGED <<state, hydration, trace>>
  /\ UNCHANGED remoteVars

\* AsyncStorage rejects the write call i awaits: the call's promise rejects.
StoreWriteFails(i) ==
  /\ i \in DOMAIN calls
  /\ calls' = Remove(calls, i)
  /\ settled' = [op |-> calls[i].op, key |-> calls[i].key,
                 outcome |-> "rejected"]
  /\ Resumed(calls[i], "rejected")
  /\ UNCHANGED <<state, storage, hydration, trace>>
  /\ UNCHANGED remoteVars

\* --------------------------------------------------------- search history
\* lines 108-114: addToHistory(medicine)
AddToHistory(medicine) ==
  LET newHistory == AddToHistoryResult(state.searchHistory, medicine) IN
  /\ Mutate("addToHistory", "searchHistory", newHistory,
            SetItem("searchHistory", Stringify("searchHistory", newHistory)),
            medicine)
  /\ UNCHANGED <<storage, hydration, settled>>
  /\ UNCHANGED <<remoteVars, appVars>>

\* addToHistory with a medicine that was never searched before.
AddNewMedicine ==
  /\ AddToHistory(Medicine(trace.nextMedicineId, 0))
  /\ trace' = [trace EXCEPT !.nextMedicineId = @ + 1, !.started = @ + 1,
                            !.freshRun = IF @ >= 0 THEN @ + 1 ELSE @]

\* addToHistory with a medicine searched again: the newest or the oldest
\* entry of the history, under a new timestamp.
AddKnownMedicine ==
  /\ state.searchHistory # <<>>
  /\ \E i \in {1, Len(state.searchHistory)} :
       AddToHistory(Medicine(state.searchHistory[i].id, 1))
  /\ trace' = [trace EXCEPT !.started = @ + 1, !.freshRun = -1]

\* lines 116-119: clearHistory()
ClearHistory ==
  /\ Mutate("clearHistory", "searchHistory", <<>>,
            RemoveItem("searchHistory"), <<>>)
  /\ trace' = [trace EXCEPT !.started = @ + 1, !.freshRun = 0]
  /\ UNCHANGED <<storage, hydration, settled>>
  /\ UNCHANGED <<remoteVars, appVars>>

\* -------------------------------------------------------------- favorites
\* The medicines toggleFavorite is called with: two ids, one of them also
\* as a later search result of the same medicine.
FavoriteMedicines == {Medicine(1, 0), Medicine(1, 1), Medicine(2, 0)}

ToggleFavorite_alwaysAdd(favorites, medicine) ==
  Append(favorites, AsFavorite(medicine))

\* lines 122-131: the new favorites: without the entries of that id when
\* there is one, else with the medicine appended.
ToggleFavoriteResult(favorites, medicine) ==
  IF \E i \in DOMAIN favorites : favorites[i].id = medicine.id
    THEN SelectSeq(favorites, LAMBDA f : f.id # medicine.id)
    ELSE Append(favorites, AsFavorite(medicine))

\* lines 121-134: toggleFavorite(medicine)
ToggleFavorite(medicine) ==
  LET newFavorites == ToggleFavoriteResult(state.favorites, medicine) IN
  /\ Mutate("toggleFavorite", "favorites", newFavorites,
            SetItem("favorites", Stringify("favorites", newFavorites)),
            medicine)
  /\ trace' = [trace EXCEPT !.started = @ + 1, !.toggled = medicine.id,
                            !.prior = state.favorites]
  /\ UNCHANGED <<storage, hydration, settled>>
  /\ UNCHANGED <<remoteVars, appVars>>

NextFavorites == \E m \in FavoriteMedicines : ToggleFavorite(m)

\* ------------------------------------------------------------------ theme
\* lines 102-106: toggleTheme()
ToggleTheme ==
  LET newTheme == ~state.isDarkMode IN
  /\ Mutate("toggleTheme", "theme", newTheme,
            SetItem("theme", Stringify("theme", newTheme)), <<>>)
  /\ trace' = [trace EXCEPT !.started = @ + 1]
  /\ UNCHANGED <<storage, hydration, settled>>
  /\ UNCHANGED <<remoteVars, appVars>>

\* lines 159-166: setCurrentUser(user): stored when there is one, removed
\* when null.
SetCurrentUser(user) ==
  /\ Mutate("setCurrentUser", "currentUser", user,
            IF user # Null
              THEN SetItem("currentUser", Stringify("currentUser", user))
              ELSE RemoveItem("currentUser"),
            user)
  /\ trace' = [trace EXCEPT !.started = @ + 1]
  /\ UNCHANGED <<storage, hydration, settled>>
  /\ UNCHANGED <<remoteVars, appVars>>

\* ------------------------------------------------------------ collections
\* The arguments of the collection operations.
ReminderInputs == {Reminder("r1", 8), Reminder("r2", 20)}
ReminderUpdates ==
  { [enabled |-> FALSE], [time |-> Date(21), notes |-> "after meals"] }
\* "r9" is the id of no reminder.
ReminderIdInputs == {"r1", "r2", "r9"}
ConsultationInputs == {Consultation("c1", 9), Consultation("c2", 10)}
ConsultationUpdates ==
  { [status |-> "completed"],
    [status |-> "cancelled", scheduledTime |-> Date(11)] }
\* "c9" is the id of no consultation.
ConsultationIdInputs == {"c1", "c2", "c9"}
DoctorLists == {<<>>, <<Doctor("d1"), Doctor("d2")>>}
ConsultationLists == {<<>>, <<Consultation("c2", 10)>>}
PrescriptionLists == {<<>>, <<Prescription("rx1")>>}
PrescriptionInputs == {Prescription("rx1"), Prescription("rx2")}

\* A call that replaces the collection under `key` by `items` and stores it.
Replace(op, key, items, args) ==
  /\ Mutate(op, key, items, SetItem(key, Stringify(key, items)), args)
  /\ trace' = [trace EXCEPT !.started = @ + 1]
  /\ UNCHANGED <<storage, hydration, settled>>
  /\ UNCHANGED <<remoteVars, appVars>>

Merge_entityWins(entity, updates) ==
  [f \in DOMAIN entity \cup DOMAIN updates |->
     IF f \in DOMAIN entity THEN entity[f] ELSE updates[f]]

\* {...entity, ...updates}
Merge(entity, updates) ==
  [f \in DOMAIN entity \cup DOMAIN updates |->
     IF f \in DOMAIN updates THEN updates[f] ELSE entity[f]]

UpdateEntities_upsert(entities, id, updates) ==
  IF \E i \in DOMAIN entities : entities[i].id = id
    THEN [i \in DOMAIN entities |->
            IF entities[i].id = id THEN Merge(entities[i], updates)
            ELSE entities[i]]
    ELSE Append(entities, Merge([id |-> id], updates))

\* lines 143-145, 186-188: .map(e => e.id === id ? {...e, ...updates} : e)
UpdateEntities(entities, id, updates) ==
  [i \in DOMAIN entities |->
     IF entities[i].id = id THEN Merge(entities[i], updates)
     ELSE entities[i]]

\* .filter(r => r.id !== id)
DeleteEntities(entities, id) == SelectSeq(entities, LAMBDA e : e.id # id)

\* lines 136-140: addReminder(reminder)
AddReminder(reminder) ==
  Replace("addReminder", "reminders", Append(state.reminders, reminder),
          reminder)

\* lines 142-148: updateReminder(id, updates)
UpdateReminder(id, updates) ==
  Replace("updateReminder", "reminders",
          UpdateEntities(state.reminders, id, updates),
          [id |-> id, updates |-> updates])

\* lines 150-154: deleteReminder(id)
DeleteReminder(id) ==
  Replace("deleteReminder", "reminders", DeleteEntities(state.reminders, id),
          id)

\* lines 168-172: setDoctors(doctors)
SetDoctors(items) == Replace("setDoctors", "doctors", items, items)

\* lines 174-177: setConsultations(consultations)
SetConsultations(items) ==
  Replace("setConsultations", "consultations", items, items)

\* lines 179-183: addConsultation(consultation)
AddConsultation(consultation) ==
  Replace("addConsultation", "consultations",
          Append(state.consultations, consultation), consultation)

\* lines 185-191: updateConsultation(id, updates)
UpdateConsultation(id, updates) ==
  Replace("updateConsultation", "consultations",
          UpdateEntities(state.consultations, id, updates),
          [id |-> id, updates |-> updates])

\* lines 216-219: setPrescriptions(prescriptions)
SetPrescriptions(items) ==
  Replace("setPrescriptions", "prescriptions", items, items)

\* lines 221-225: addPrescription(prescription)
AddPrescription(prescription) ==
  Replace("addPrescription", "prescriptions",
          Append(state.prescriptions, prescription), prescription)

NextSettings ==
  \/ ToggleTheme
  \/ \E user \in {User("u1"), Null} : SetCurrentUser(user)

NextReminders ==
  \/ \E r \in ReminderInputs : AddReminder(r)
  \/ \E id \in ReminderIdInputs, u \in ReminderUpdates : UpdateReminder(id, u)
  \/ \E id \in ReminderIdInputs : DeleteReminder(id)

NextConsultations ==
  \/ \E items \in ConsultationLists : SetConsultations(items)
  \/ \E c \in ConsultationInputs : AddConsultation(c)
  \/ \E id \in ConsultationIdInputs, u \in ConsultationUpdates :
       UpdateConsultation(id, u)

NextCatalog ==
  \/ \E items \in DoctorLists : SetDoctors(items)
  \/ \E items \in PrescriptionLists : SetPrescriptions(items)
  \/ \E p \in PrescriptionInputs : AddPrescription(p)

\* ---------------------------------------------------------------- hydrate
\* lines 229-247: hydrate() is called (once, when the App mounts:
\* part_000 lines 10-13) and its eight getItem calls are answered: each
\* gets the stored string, null, or is rejected.
HydrateRead ==
  /\ hydration.pc = "idle"
  /\ ~trace.hydrated
  /\ trace.started < MaxStoreCalls
  /\ \E bad \in RejectableKeys \cup {"none"} :
       hydration' = [pc |-> "reading",
                     reads |-> [k \in HydratedKeys |->
                                  IF k = bad THEN Rejected ELSE storage[k]]]
  /\ trace' = [trace EXCEPT !.started = @ + 1, !.hydrated = TRUE]
  /\ UNCHANGED <<state, storage, calls, settled>>
  /\ UNCHANGED <<remoteVars, appVars>>

\* `x ? JSON.parse(x) : default` of lines 250-257.
Loaded(key, text) ==
  IF text = Absent THEN Default(key) ELSE Parse(text)

\* Promise.all rejects, or one JSON.parse throws: control goes to the catch
\* of line 259 before set() is called.
HydrateThrows(reads) ==
  \E k \in HydratedKeys :
    \/ reads[k] = Rejected
    \/ reads[k] # Absent /\ ParseThrows(reads[k])

HydrateOutcome_noCatch(reads) ==
  IF HydrateThrows(reads) THEN "rejected" ELSE "fulfilled"

\* lines 228, 259-261: how the promise of hydrate() settles: the catch
\* block logs the error and returns.
HydrateOutcome(reads) ==
  IF HydrateThrows(reads) THEN "caught" ELSE "fulfilled"

\* lines 249-261: Promise.all settles; the eight fields are set in one
\* set() call, or the error is caught and logged.
HydrateApply ==
  /\ hydration.pc = "reading"
  /\ state' = IF HydrateThrows(hydration.reads)
                THEN state
                ELSE [f \in DOMAIN state |->
                        LET k == CHOOSE k \in HydratedKeys : Field(k) = f
                        IN  Loaded(k, hydration.reads[k])]
  /\ hydration' = [pc |-> "idle"]
  /\ settled' = [op |-> "hydrate", key |-> "none",
                 outcome |-> HydrateOutcome(hydration.reads)]
  /\ trace' = IF HydrateThrows(hydration.reads) THEN trace
              ELSE [trace EXCEPT !.freshRun = -1, !.toggled = 0]
  /\ UNCHANGED <<storage, calls>>
  /\ UNCHANGED <<remoteVars, appVars>>

NextStorage ==
  \/ \E i \in 1..MaxInFlight : StoreWrite(i)
  \/ \E i \in 1..MaxInFlight : StoreWriteFails(i)

NextHydrate ==
  \/ HydrateRead
  \/ HydrateApply

NextHistory ==
  \/ AddNewMedicine
  \/ AddKnownMedicine
  \/ ClearHistory

\* ---------------------------------------------------------- notifications
\* reminderTime.setHours(reminderTime.getHours() - 1), in minutes
REMINDER_LEAD == 60

\* BookingScreen.tsx lines 109-111: the time of day of a slot start, in
\* minutes.
MinuteOfDay(startTime) ==
  IF startTime = "09:00" THEN 540
  ELSE IF startTime = "09:30" THEN 570
  ELSE 600

\* `new Date()` when a notification is asked for, in minutes of the day of
\* the consultations: before, at and after the fire time of a 09:00 slot.
Nows == {470, 480, 500, 530}

\* lines 619-620: the fire time of the reminder of a consultation.
ReminderTime(consultation) ==
  MinuteOfDay(consultation.scheduledTime.date[2]) - REMINDER_LEAD

\* lines 622-639: localNotificationSchedule under the id
\* `consultation-reminder-${consultation.id}`.
ReminderOf(consultation) ==
  [type |-> "reminder", consultationId |-> consultation.id,
   date |-> ReminderTime(consultation)]

\* lines 643-654: the notification of sendBookingConfirmation.
ConfirmationOf(consultation) ==
  [type |-> "booking-confirmed", consultationId |-> consultation.id,
   date |-> MinuteOfDay(consultation.scheduledTime.date[2])]

\* A notification scheduled under an id it shares with an earlier one
\* takes its place.
Post(posted, notification) ==
  {n \in posted : ~(n.type = notification.type
                     /\ n.consultationId = notification.consultationId)}
    \cup {notification}

\* lines 618-641: scheduleConsultationReminder(consultation) at time `now`.
WithReminder(posted, consultation, now) ==
  IF ReminderTime(consultation) > now
    THEN Post(posted, ReminderOf(consultation))
    ELSE posted

\* The consultations scheduleConsultationReminder may be given.
ReminderConsultations ==
  { [id |-> id, status |-> status,
     scheduledTime |-> Date(<<"2025-11-29", start>>)] :
      id \in {"c1", "c2"}, status \in Statuses, start \in {"09:00", "09:30"} }

ScheduleConsultationReminder(consultation, now) ==
  /\ notifications' = WithReminder(notifications, consultation, now)
  /\ opResult' = [op |-> "scheduleConsultationReminder", cause |-> "none",
                  error |-> NoError, args |-> consultation, now |-> now]
  /\ UNCHANGED <<availability, consultations, doctors, prescriptions, book>>
  /\ UNCHANGED <<bookingScreen, historyScreen, search>>
  /\ UNCHANGED storeVars

NextReminder ==
  \E c \in ReminderConsultations, now \in Nows :
    ScheduleConsultationReminder(c, now)

\* ---------------------------------------------------------------- screens
\* BookingScreen.tsx lines 108-111, consultationService.ts lines 219-224:
\* the consultation bookConsultation returns to the screen, its
\* scheduledTime the Date built from the selected date and slot.
CacheEntry(returned) ==
  [f \in DOMAIN returned \ {"exists"} |->
     IF f = "scheduledTime" THEN Date(returned[f]) ELSE returned[f]]

\* BookingScreen.tsx lines 80-131: handleBookConsultation passes its checks
\* (a user is signed in) and calls bookConsultation for that user.
HandleBookConsultation ==
  /\ bookingScreen.pc = "idle"
  /\ state.currentUser # Null
  /\ state.currentUser.id = PatientId(ThisClient)
  /\ BookStart(ThisClient)

BookingSucceeded_anyOutcome == book[ThisClient].pc = "done"

\* BookingScreen.tsx lines 114-131: `await bookConsultation(...)` returned
\* the consultation (it did not throw).
BookingSucceeded ==
  /\ book[ThisClient].pc = "done"
  /\ book[ThisClient].error = NoError

\* BookingScreen.tsx line 131: addConsultation(consultation) is called and
\* awaited.
BookingCaches ==
  /\ bookingScreen.pc = "idle"
  /\ BookingSucceeded
  /\ LET consultation == CacheEntry(book[ThisClient].returned)
         newConsultations == Append(state.consultations, consultation)
     IN  /\ Mutate("addConsultation", "consultations", newConsultations,
                   SetItem("consultations",
                           Stringify("consultations", newConsultations)),
                   consultation)
         /\ bookingScreen' = [pc |-> "caching", consultation |-> consultation]
  /\ trace' = [trace EXCEPT !.started = @ + 1]
  /\ UNCHANGED <<storage, hydration, settled>>
  /\ UNCHANGED <<historyScreen, search, notifications>>
  /\ UNCHANGED remoteVars

\* BookingScreen.tsx lines 157-158: bookConsultation threw: the catch shows
\* 'Booking Failed'.
BookingFails ==
  /\ bookingScreen.pc = "idle"
  /\ book[ThisClient].pc = "done"
  /\ book[ThisClient].error # NoError
  /\ bookingScreen' = [pc |-> "failed", message |-> book[ThisClient].error]
  /\ UNCHANGED <<historyScreen, search, notifications>>
  /\ UNCHANGED <<remoteVars, storeVars>>

\* BookingScreen.tsx lines 133-137: sendBookingConfirmation, then
\* scheduleConsultationReminder, once addConsultation has returned.
BookingNotifies(now) ==
  /\ bookingScreen.pc = "cached"
  /\ notifications' =
       WithReminder(Post(notifications,
                         ConfirmationOf(bookingScreen.consultation)),
                    bookingScreen.consultation, now)
  /\ bookingScreen' = [bookingScreen EXCEPT !.pc = "done"]
  /\ UNCHANGED <<historyScreen, search>>
  /\ UNCHANGED <<remoteVars, storeVars>>

\* Another app instance, booking at the same time.
Rival == 2

NextRival ==
  \/ BookStart(Rival)
  \/ TxGet(Rival)
  \/ TxCommit(Rival)
  \/ TxRetry(Rival)
  \/ TxAbort(Rival)

NextBookingScreen ==
  \/ HandleBookConsultation
  \/ TxGet(ThisClient)
  \/ TxCommit(ThisClient)
  \/ TxRetry(ThisClient)
  \/ TxAbort(ThisClient)
  \/ BookingCaches
  \/ BookingFails
  \/ \E now \in Nows : BookingNotifies(now)

\* --------------------------------------------------------- searchMedicine
\* part_001 lines 26-30 and 207-213: the lookups in the order they are
\* tried: the three FDA queries, then RxNav.
StrategyOrder ==
  << "openfda.brand_name", "openfda.generic_name", "openfda.substance_name",
     "rxnav" >>

\* How one lookup ends: with a result, with an empty answer, with an error
\* response, or with the 10 s timeout.
QueryOutcomes == {"found", "empty", "failed", "timeout"}

\* `Medicine "${medicineName}" not found. Try asking for more details using
\* the AI assistant.`
ErrMedicineNotFound ==
  "Medicine not found. Try asking for more details using the AI assistant."

SearchAfter_failureAborts(call, outcome) ==
  LET tried == Append(call.tried, StrategyOrder[Len(call.tried) + 1])
      outcomes == Append(call.outcomes, outcome)
  IN  IF outcome = "found"
        THEN [pc |-> "returned", tried |-> tried, outcomes |-> outcomes,
              source |-> tried[Len(tried)], error |-> NoError]
      ELSE IF Len(tried) = Len(StrategyOrder) \/ outcome # "empty"
        THEN [pc |-> "thrown", tried |-> tried, outcomes |-> outcomes,
              source |-> "none", error |-> ErrMedicineNotFound]
      ELSE [call EXCEPT !.tried = tried, !.outcomes = outcomes]

\* part_001 lines 32-78, 96-134, 209-223: the call after its next lookup
\* has ended: a result is returned at once; an empty answer, an error
\* (caught at lines 72-75 and 132-134) or a timeout leads to the next
\* lookup, and after the last one to the not-found error.
SearchAfter(call, outcome) ==
  LET tried == Append(call.tried, StrategyOrder[Len(call.tried) + 1])
      outcomes == Append(call.outcomes, outcome)
  IN  IF outcome = "found"
        THEN [pc |-> "returned", tried |-> tried, outcomes |-> outcomes,
              source |-> tried[Len(tried)], error |-> NoError]
      ELSE IF Len(tried) = Len(StrategyOrder)
        THEN [pc |-> "thrown", tried |-> tried, outcomes |-> outcomes,
              source |-> "none", error |-> ErrMedicineNotFound]
      ELSE [call EXCEPT !.tried = tried, !.outcomes = outcomes]

\* part_001 lines 206-211: searchMedicine(medicineName) is called.
SearchMedicine ==
  /\ search.pc # "querying"
  /\ search' = [pc |-> "querying", tried |-> <<>>, outcomes |-> <<>>,
                source |-> "none", error |-> NoError]
  /\ UNCHANGED <<bookingScreen, historyScreen, notifications>>
  /\ UNCHANGED <<remoteVars, storeVars>>

\* The lookup under way ends.
SearchQuery(outcome) ==
  /\ search.pc = "querying"
  /\ search' = SearchAfter(search, outcome)
  /\ UNCHANGED <<bookingScreen, historyScreen, notifications>>
  /\ UNCHANGED <<remoteVars, storeVars>>

NextSearch ==
  \/ SearchMedicine
  \/ \E outcome \in QueryOutcomes : SearchQuery(outcome)

\* The consultation documents in the order of their ids.
ConsultationOrder == [p \in Clients |-> AutoId(p)]

\* consultationService.ts lines 243-255: the documents of the consultations
\* collection whose patientId is userId, as fetchUserConsultations maps
\* them.  Each patient books once here, so the orderBy of line 246 has
\* nothing to order.
UserConsultations(userId) ==
  LET ids == SelectSeq(ConsultationOrder,
                       LAMBDA c : /\ consultations[c].exists
                                  /\ consultations[c].patientId = userId)
  IN  [i \in DOMAIN ids |->
         CacheEntry([id |-> ids[i]] @@ consultations[ids[i]])]

\* ConsultationsHistoryScreen.tsx lines 51-57 and 67-73: loadConsultations
\* (or handleRefresh) finds a current user and calls
\* fetchUserConsultations(currentUser.id).
LoadConsultations ==
  /\ historyScreen.pc = "idle"
  /\ state.currentUser # Null
  /\ historyScreen' = [pc |-> "fetching", userId |-> state.currentUser.id]
  /\ UNCHANGED <<bookingScreen, search, notifications>>
  /\ UNCHANGED <<remoteVars, storeVars>>

\* consultationService.ts lines 241-263: the query is answered with the
\* documents the collection holds at that moment, or fails; on a failure
\* the screen shows the error (ConsultationsHistoryScreen.tsx lines 60-61).
FetchUserConsultations ==
  /\ historyScreen.pc = "fetching"
  /\ \E net \in BOOLEAN :
       historyScreen' =
         IF net
           THEN [pc |-> "fetched", userId |-> historyScreen.userId,
                 loaded |-> UserConsultations(historyScreen.userId)]
           ELSE [pc |-> "idle"]
  /\ UNCHANGED <<bookingScreen, search, notifications>>
  /\ UNCHANGED <<remoteVars, storeVars>>

\* ConsultationsHistoryScreen.tsx lines 59, 75: the screen receives the
\* result and calls setConsultations(userConsultations), awaiting it.
StoreUserConsultations ==
  /\ historyScreen.pc = "fetched"
  /\ Mutate("setConsultations", "consultations", historyScreen.loaded,
            SetItem("consultations",
                    Stringify("consultations", historyScreen.loaded)),
            historyScreen.loaded)
  /\ historyScreen' = [historyScreen EXCEPT !.pc = "storing"]
  /\ trace' = [trace EXCEPT !.started = @ + 1]
  /\ UNCHANGED <<storage, hydration, settled>>
  /\ UNCHANGED <<bookingScreen, search, notifications>>
  /\ UNCHANGED remoteVars

NextHistoryScreen ==
  \/ LoadConsultations
  \/ FetchUserConsultations
  \/ StoreUserConsultations

\* part_004 lines 45, 101, 123: a user signs in on this device; sign-out.
SessionUsers == {User(PatientId(ThisClient)), User(PatientId(Rival)), Null}

NextSession == \E user \in SessionUsers : SetCurrentUser(user)

\* ---------------------------------------------------------- specifications
NextBooking ==
  \/ \E p \in Clients : BookStart(p)
  \/ \E p \in Clients : TxGet(p)
  \/ \E p \in Clients : TxCommit(p)
  \/ \E p \in Clients : TxRetry(p)
  \/ \E p \in Clients : TxExhausted(p)
  \/ \E p \in Clients : TxAbort(p)

NextStatus ==
  \/ \E c \in ConsultationIds, s \in Statuses : UpdateConsultationStatus(c, s)
  \/ \E c \in ConsultationIds : CancelConsultation(c)

NextFetch ==
  \/ \E d \in DoctorIds : FetchDoctorById(d)
  \/ \E c \in ConsultationIds : FetchConsultationById(c)
  \/ \E r \in PrescriptionIds : FetchPrescriptionById(r)

\* The booking protocol alone.
SpecBooking == Init /\ [][NextBooking]_vars

\* Bookings and the status operations on the consultations they create.
SpecStatus == Init /\ [][NextBooking \/ NextStatus]_vars

\* Bookings and the fetch-by-id operations.
SpecFetch == Init /\ [][NextBooking \/ NextFetch]_vars


\* The search history of the cache, its storage and hydrate().
SpecHistory == InitHistory /\ [][NextHistory \/ NextStorage \/ NextHydrate]_vars

\* The store as created, the remote collections at rest.
InitStore == RemoteAtRest /\ StoreAfter(0)

\* The favorites of the cache, their storage and hydrate().
SpecFavorites ==
  InitStore /\ [][NextFavorites \/ NextStorage \/ NextHydrate]_vars

\* hydrate() alone, over every combination of stored keys.
SpecHydrate == InitHydrate /\ [][NextHydrate]_vars

\* The reminders and the consultations of the cache and their storage.
SpecEntities ==
  InitStore /\ [][NextReminders \/ NextConsultations \/ NextStorage]_vars

\* Every mutating operation of the cache and the storage.
NextCache ==
  \/ NextHistory
  \/ NextFavorites
  \/ NextSettings
  \/ NextReminders
  \/ NextConsultations
  \/ NextCatalog
  \/ NextStorage

SpecCache == InitStore /\ [][NextCache]_vars

Next ==
  \/ NextBooking
  \/ NextStatus
  \/ NextFetch
  \/ NextCache
  \/ NextHydrate
  \/ NextCatalogue
  \/ NextReminder
  \/ NextBookingScreen
  \/ NextHistoryScreen
  \/ NextSession
  \/ NextSearch

\* Every operation of the consultation service, of the cache and of the
\* screens.
Spec == Init /\ [][Next]_vars

\* The doctor collection holding any of the catalogue documents.
InitCatalogue ==
  /\ \E ids \in SUBSET CatalogIds : InitRemoteOver(ids)
  /\ InitApp
  /\ StoreAfter(0)

\* The doctor list and the availability of a day, while this app books.
SpecCatalogue == InitCatalogue /\ [][NextCatalogue \/ NextThisBooking]_vars

\* The notification service asked for reminders.
SpecReminder == Init /\ [][NextReminder]_vars

\* The booking screen of a signed-in user, the cache and its storage.
SpecFlow ==
  InitSignedIn /\ [][NextBookingScreen \/ NextRival \/ NextStorage]_vars

\* searchMedicine and its lookups.
SpecSearch == Init /\ [][NextSearch]_vars

\* The booking screen, the history screen and the session of this app
\* instance, with a rival instance booking.
SpecScreens ==
  InitSignedIn /\ [][NextBookingScreen \/ NextRival \/ NextHistoryScreen
                       \/ NextSession \/ NextStorage]_vars

\* Cancellation of the consultations this app and a rival instance book.
NextCancel ==
  \E c \in {AutoId(ThisClient), AutoId(Rival)} : CancelConsultation(c)

SpecCancel == Init /\ [][NextThisBooking \/ NextRival \/ NextCancel]_vars

\* ------------------------------------------------------------- properties
Done(p) == book[p].pc = "done"
Succeeded(p) == Done(p) /\ book[p].error = NoError
Started(p) == book[p].pc # "idle"
Target(p) == <<book[p].doctorId, book[p].selectedDate, book[p].startTime>>
\* The transaction itself gave up: network failure or attempts used up.
SubstrateFailure(p) == book[p].thrown \in {FirestoreUnavailable, FirestoreAborted}

\* Every slot of every existing availability document, with its document id.
AllSlots ==
  UNION { { <<id, availability[id].slots[i]>> :
              i \in 1..Len(availability[id].slots) } :
          id \in {x \in AvailabilityDocIds : availability[x].exists} }

\* The slot the booking p asks for, as it stands in the availability record.
TargetSlot(p) ==
  LET slots == availability[TargetDocId(p)].slots
  IN  slots[FindIndex(slots, book[p].startTime)]

TargetSlotExists(p) ==
  /\ availability[TargetDocId(p)].exists
  /\ FindIndex(availability[TargetDocId(p)].slots, book[p].startTime) # -1

C2_FailureHasNoEffect ==
  /\ [](\A p \in Clients :
          (Done(p) /\ ~Succeeded(p)) =>
            /\ ~consultations[book[p].consultationId].exists
            /\ \A s \in AllSlots : s[2].consultationId # book[p].consultationId)
  /\ [][\A p \in Clients :
          (~Done(p) /\ book'[p].pc = "done" /\ book'[p].error # NoError) =>
            /\ availability' = availability
            /\ consultations' = consultations]_vars

C2_Witness ==
  \E p \in Clients :
    /\ Done(p) /\ book[p].thrown = FirestoreAborted
    /\ TargetSlotExists(p)
    /\ TargetSlot(p).consultationId # book[p].consultationId
    /\ ~consultations[book[p].consultationId].exists

\* C3: a slot is booked exactly when the consultation document it names
\* exists: every booked slot names an existing consultation made for that
\* doctor, date and start time, and every consultation document is named by
\* a booked slot of its doctor's availability record for its date.
C3_SlotIffConsultation ==
  /\ \A s \in AllSlots :
       s[2].isBooked =>
         /\ s[2].consultationId \in ConsultationIds
         /\ consultations[s[2].consultationId].exists
         /\ AvailabilityDocId(consultations[s[2].consultationId].doctorId,
                              consultations[s[2].consultationId].scheduledTime[1])
              = s[1]
         /\ consultations[s[2].consultationId].scheduledTime[2] = s[2].startTime
  /\ \A c \in ConsultationIds :
       consultations[c].exists =>
         \E s \in AllSlots :
           /\ s[1] = AvailabilityDocId(consultations[c].doctorId,
                                       consultations[c].scheduledTime[1])
           /\ s[2].startTime = consultations[c].scheduledTime[2]
           /\ s[2].isBooked
           /\ s[2].consultationId = c

C3_Witness ==
  /\ \E c \in ConsultationIds : consultations[c].exists
  /\ \E s \in AllSlots : s[2].isBooked
  /\ \E s \in AllSlots : ~s[2].isBooked
  /\ \E p \in Clients : Done(p) /\ book[p].thrown = FirestoreAborted

\* C4: an unbooked slot carries no consultationId, and no two consultation
\* documents are for the same doctor, date and start time.
C4_SlotInvariant ==
  /\ \A s \in AllSlots : ~s[2].isBooked => s[2].consultationId = Undefined
  /\ \A c1 \in ConsultationIds, c2 \in ConsultationIds :
       (c1 # c2 /\ consultations[c1].exists /\ consultations[c2].exists) =>
         <<consultations[c1].doctorId, consultations[c1].scheduledTime>>
           # <<consultations[c2].doctorId, consultations[c2].scheduledTime>>

C4_Witness ==
  /\ Cardinality({c \in ConsultationIds : consultations[c].exists}) = 2
  /\ \E p \in Clients : Done(p) /\ book[p].thrown = ErrSlotAlreadyBooked

\* C5: a consultation that is 'cancelled' or 'completed' is not moved to
\* 'scheduled' or 'ongoing' by any later updateConsultationStatus or
\* cancelConsultation call.
C5_StatusMonotonic ==
  [][\A c \in ConsultationIds :
       (consultations[c].exists
          /\ consultations[c].status \in {"cancelled", "completed"}) =>
         consultations'[c].status \notin {"scheduled", "ongoing"}]_vars

AllowedTransitions ==
  { <<"scheduled", "ongoing">>, <<"ongoing", "completed">>,
    <<"scheduled", "cancelled">> }

\* C6: the status of a consultation only ever changes along
\* scheduled->ongoing, ongoing->completed and scheduled->cancelled; in
\* particular a consultation becomes 'cancelled' only from 'scheduled'.
C6_OnlyAllowedTransitions ==
  [][\A c \in ConsultationIds :
       (consultations[c].exists
          /\ consultations'[c].status # consultations[c].status) =>
         <<consultations[c].status, consultations'[c].status>>
           \in AllowedTransitions]_vars

\* C7: two bookConsultation attempts, the only ones under way, on two
\* different slots that the same availability record offers: unless the
\* network fails one of them, both succeed (a conflict at commit is retried),
\* and the record then shows both slots booked, each with its own
\* consultationId.
C7_DifferentSlotsBothSucceed ==
  \A p \in Clients, q \in Clients :
    ( /\ p # q
      /\ \A r \in Clients \ {p, q} : ~Started(r)
      /\ Done(p) /\ Done(q)
      /\ TargetDocId(p) = TargetDocId(q)
      /\ book[p].startTime # book[q].startTime
      /\ TargetSlotExists(p) /\ TargetSlotExists(q)
      /\ book[p].thrown # FirestoreUnavailable
      /\ book[q].thrown # FirestoreUnavailable ) =>
        /\ Succeeded(p) /\ Succeeded(q)
        /\ TargetSlot(p).isBooked
        /\ TargetSlot(p).consultationId = book[p].consultationId
        /\ TargetSlot(q).isBooked
        /\ TargetSlot(q).consultationId = book[q].consultationId

C7_Witness ==
  \E p \in Clients, q \in Clients :
    /\ p # q
    /\ \A r \in Clients \ {p, q} : ~Started(r)
    /\ Succeeded(p) /\ Succeeded(q)
    /\ TargetDocId(p) = TargetDocId(q)
    /\ book[p].startTime # book[q].startTime
    /\ book[p].attempts = 0 /\ book[q].attempts = 1
    /\ TargetSlot(p).consultationId = book[p].consultationId
    /\ TargetSlot(q).consultationId = book[q].consultationId

\* C8: a finished bookConsultation that failed gives its caller the error
\* raised inside the transaction, unchanged, when that error is 'This slot
\* has already been booked' (raised only when the slot asked for is booked),
\* and 'Failed to book consultation. Please try again.' for every other
\* failure: no availability record, no such slot, transaction or network
\* failure.
C8_ErrorSurface ==
  \A p \in Clients :
    Done(p) =>
      /\ book[p].thrown = NoError <=> book[p].error = NoError
      /\ book[p].thrown = "This slot has already been booked" =>
           /\ book[p].error = "This slot has already been booked"
           /\ TargetSlotExists(p) /\ TargetSlot(p).isBooked
      /\ book[p].thrown \in {"Availability not found", "Time slot not found",
                             FirestoreUnavailable, FirestoreAborted} =>
           book[p].error = "Failed to book consultation. Please try again."
      /\ (~availability[TargetDocId(p)].exists
            /\ book[p].thrown # FirestoreUnavailable) =>
           book[p].thrown = "Availability not found"
      /\ (availability[TargetDocId(p)].exists /\ ~TargetSlotExists(p)
            /\ book[p].thrown # FirestoreUnavailable) =>
           book[p].thrown = "Time slot not found"

C8_Witness ==
  \E p \in Clients, q \in Clients, r \in Clients :
    /\ Done(p) /\ book[p].thrown = ErrSlotAlreadyBooked
    /\ book[p].error = ErrSlotAlreadyBooked
    /\ Done(q) /\ book[q].thrown \in {ErrSlotNotFound, ErrAvailabilityNotFound}
    /\ book[q].error = ErrBookingFailed
    /\ Succeeded(r)

GenericErrors ==
  { ErrFetchDoctor, ErrFetchConsultation, ErrFetchPrescription,
    ErrBookingFailed }

\* C9: when the doctor, consultation, prescription, availability day or slot
\* asked for does not exist, the error given to the caller is a not-found
\* error, different from the generic retryable error the same operation
\* gives for a network failure.
C9_NotFoundDistinguished ==
  /\ (opResult.op \in {"fetchDoctorById", "fetchConsultationById",
                       "fetchPrescriptionById"}
        /\ opResult.cause = "missing") =>
       opResult.error \notin GenericErrors
  /\ \A p \in Clients :
       (Done(p) /\ book[p].thrown \in {ErrAvailabilityNotFound, ErrSlotNotFound})
         => book[p].error \notin GenericErrors

\* C10: a bookConsultation that succeeded has its slot booked with its own
\* consultation id, and returned, and stored under that id, a consultation
\* with status 'scheduled', duration 30 and channel 'consultation_<id>'; a
\* later attempt on a slot that is booked ends with 'This slot has already
\* been booked' (unless the network fails it) and changes neither the
\* availability records nor the consultations.
C10_BookingScenario ==
  /\ [](\A p \in Clients :
          Succeeded(p) =>
            /\ TargetSlot(p).isBooked
            /\ TargetSlot(p).consultationId = book[p].returned.id
            /\ book[p].returned.id = AutoId(p)
            /\ book[p].returned.status = "scheduled"
            /\ book[p].returned.duration = 30
            /\ book[p].returned.agoraChannelName
                 = "consultation_" \o book[p].returned.id
            /\ Len(book[p].returned.agoraChannelName)
                 = 13 + Len(book[p].returned.id)
            /\ consultations[book[p].returned.id]
                 = [f \in DOMAIN book[p].returned \ {"id"} |->
                      book[p].returned[f]])
  /\ [][\A q \in Clients :
          ( /\ book[q].pc = "get"
            /\ book'[q].pc # "get"
            /\ TargetSlotExists(q) /\ TargetSlot(q).isBooked
            /\ book'[q].thrown # FirestoreUnavailable ) =>
              /\ book'[q].pc = "done"
              /\ book'[q].error = "This slot has already been booked"
              /\ availability' = availability
              /\ consultations' = consultations]_vars

C10_Witness ==
  \E p \in Clients, q \in Clients :
    /\ Succeeded(p)
    /\ book[p].returned.agoraChannelName = "consultation_c1"
    /\ Done(q) /\ Target(q) = Target(p) /\ PatientId(q) # PatientId(p)
    /\ book[q].error = ErrSlotAlreadyBooked /\ book[q].attempts = 0
    /\ TargetSlot(p).consultationId = "c1"
    /\ consultations["c1"].status = "scheduled"

\* ---------------------------------------------------- cache properties
Ids(seq) == {seq[i].id : i \in DOMAIN seq}
DistinctIds(seq) == \A i, j \in DOMAIN seq : seq[i].id = seq[j].id => i = j
Min(a, b) == IF a < b THEN a ELSE b
\* A store call of the given operation is made in this step.
Calls(op) ==
  /\ Len(calls') = Len(calls) + 1
  /\ calls'[Len(calls')].op = op
LastCall == calls'[Len(calls')]

\* C11: whatever addToHistory, clearHistory and hydrate calls were made, the
\* search history holds at most 50 entries and no two of them share an id;
\* and after n medicines never searched before were added one after the
\* other to an empty history, it holds the min(n, 50) most recent of them,
\* the most recent first.
C11_HistoryBounded ==
  /\ Len(state.searchHistory) <= 50
  /\ DistinctIds(state.searchHistory)
  /\ trace.freshRun >= 0 =>
       /\ Len(state.searchHistory) = Min(trace.freshRun, 50)
       /\ \A i \in DOMAIN state.searchHistory :
            state.searchHistory[i].id = trace.nextMedicineId - i

C11_Witness ==
  /\ trace.freshRun = 51
  /\ Len(state.searchHistory) = 50
  /\ state.searchHistory[1].id = 51
  /\ state.searchHistory[50].id = 2

\* C12: addToHistory(m) on a history h leaves m first, followed by the
\* entries of h whose id differs from m.id in their order, cut to 50
\* entries; when m.id was in h, m is at the front, appears once, and the
\* history is no longer than it was.
C12_AddToHistory ==
  [][Calls("addToHistory") =>
       LET m == LastCall.args
           h == state.searchHistory
           r == state'.searchHistory
           kept == SelectSeq(h, LAMBDA e : e.id # m.id)
       IN  /\ Len(r) = Min(Len(kept) + 1, 50)
           /\ r[1] = m
           /\ \A i \in 2..Len(r) : r[i] = kept[i - 1]
           /\ m.id \in Ids(h) =>
                /\ Cardinality({i \in DOMAIN r : r[i].id = m.id}) = 1
                /\ Len(r) <= Len(h)]_vars

C12_Witness ==
  \E i \in DOMAIN calls :
    /\ calls[i].op = "addToHistory"
    /\ Len(calls[i].before) = 50
    /\ calls[i].args.id = calls[i].before[50].id
    /\ calls[i].after[1] = calls[i].args
    /\ calls[i].args.timestamp = 1
    /\ Len(calls[i].after) = 50
    /\ state.searchHistory = calls[i].after

\* C13: a toggleFavorite(m) that directly follows a toggleFavorite of the
\* same medicine leaves the favorites with the ids and the size they had
\* before the first of the two, whether or not m was a favorite then.
C13_ToggleTwice ==
  [][(Calls("toggleFavorite") /\ trace.toggled = LastCall.args.id) =>
       /\ Ids(state'.favorites) = Ids(trace.prior)
       /\ Len(state'.favorites) = Len(trace.prior)]_vars

C13_Witness ==
  /\ trace.toggled = 1
  /\ trace.prior = <<>>
  /\ Ids(state.favorites) = {1}
  /\ trace.started = 3
  /\ \E i \in DOMAIN calls :
       /\ calls[i].op = "toggleFavorite"
       /\ calls[i].before = <<>>
       /\ calls[i].after = state.favorites

\* hydrate() settles in this step.
HydrateSettles == hydration.pc = "reading" /\ hydration'.pc = "idle"
\* The read of key k gave nothing that can be loaded.
LoadFails(k) ==
  \/ hydration.reads[k] = Rejected
  \/ hydration.reads[k] # Absent /\ ParseThrows(hydration.reads[k])

\* C14: when the 'favorites' key is missing or holds a string that is not
\* JSON (every other key being missing or well-formed, and read), hydrate()
\* completes with empty favorites and with every other field loaded from
\* its key.
C14_FavoritesResilience ==
  [][( /\ HydrateSettles
       /\ hydration.reads["favorites"] = Absent \/ LoadFails("favorites")
       /\ \A k \in HydratedKeys \ {"favorites"} : ~LoadFails(k) ) =>
         /\ settled'.outcome \in {"fulfilled", "caught"}
         /\ state'.favorites = <<>>
         /\ \A k \in HydratedKeys \ {"favorites"} :
              state'[Field(k)] = Loaded(k, hydration.reads[k])]_vars

\* C15: hydrate() on the store as created never rejects: whatever reads
\* were rejected and whatever keys are missing or hold a string that is
\* not JSON, it settles normally (with the error caught and logged, if
\* any), and every field whose key was missing or failed to load holds
\* its default.
C15_HydrateNeverRaises ==
  [][HydrateSettles =>
       /\ settled'.op = "hydrate"
       /\ settled'.outcome \in {"fulfilled", "caught"}
       /\ \A k \in HydratedKeys :
            (hydration.reads[k] = Absent \/ LoadFails(k)) =>
              state'[Field(k)] = Default(k)]_vars

C15_Witness ==
  /\ settled.op = "hydrate"
  /\ settled.outcome = "caught"
  /\ hydration.pc = "idle"
  /\ storage["favorites"] = Corrupt
  /\ storage["reminders"] = Corrupt
  /\ storage["doctors"] = Absent
  /\ storage["theme"] = Stringify("theme", TRUE)
  /\ state.favorites = <<>> /\ state.reminders = <<>> /\ state.doctors = <<>>

\* The key holds the serialized in-memory value (a key never stored, or
\* removed, stands for the default).
Persisted(key) ==
  \/ storage[key] = Stringify(key, state[Field(key)])
  \/ storage[key] = Absent /\ state[Field(key)] = Default(key)

\* C16: when a mutating operation has completed and no mutation is in
\* flight, the key of its collection holds the serialized in-memory value,
\* in whatever order the writes of the calls made completed.
C16_PersistedEqualsMemory ==
  (calls = <<>> /\ settled.outcome = "fulfilled"
     /\ settled.key \in HydratedKeys) =>
    Persisted(settled.key)

SetOperations == {"setDoctors", "setConsultations", "setPrescriptions"}
\* The store call i settles in this step.
Settles(i) == i \in DOMAIN calls /\ calls' = Remove(calls, i)

\* C17: a set<Collection>(items) whose store write fails leaves the
\* in-memory sequence as it was before the call; and while the call is
\* under way the in-memory sequence is not ahead of the persisted value.
C17_SetAllOrNothing ==
  /\ [][\A i \in 1..MaxInFlight :
          ( /\ Settles(i)
            /\ calls[i].op \in SetOperations
            /\ settled'.outcome = "rejected" ) =>
              state'[Field(calls[i].key)] = calls[i].before]_vars
  /\ [](\A i \in DOMAIN calls :
          (calls[i].op \in SetOperations /\ Len(calls) = 1) =>
            Persisted(calls[i].key))

\* C18: no two mutations of one collection are under way at the same time:
\* a mutation begins only after the one before it on the same collection
\* has completed, its store write included.
C18_NoInterleaving ==
  \A i, j \in DOMAIN calls : i # j => calls[i].key # calls[j].key

UpdateOperations == {"updateReminder", "updateConsultation"}
\* An update call is made in this step with an id no entity has.
UpdatesNoEntity ==
  /\ \E op \in UpdateOperations : Calls(op)
  /\ LastCall.args.id \notin Ids(LastCall.before)

\* C19: updateReminder / updateConsultation with an id that matches no
\* entity is carried out without an error of its own (it is rejected only
\* when the storage rejects its write) and leaves the in-memory state, the
\* sequence included, as it was.
C19_UpdateMissingIsNoOp ==
  /\ [][UpdatesNoEntity => state' = state]_vars
  /\ [][\A i \in 1..MaxInFlight :
          ( /\ Settles(i)
            /\ calls[i].op \in UpdateOperations
            /\ calls[i].args.id \notin Ids(calls[i].before)
            /\ storage'[calls[i].key] = calls[i].write.item
            /\ storage' # storage ) =>
              settled'.outcome = "fulfilled"]_vars

C19_Witness ==
  \E i \in DOMAIN calls :
    /\ calls[i].op = "updateReminder"
    /\ calls[i].args.id = "r9"
    /\ calls[i].before = <<Reminder("r1", 8), Reminder("r2", 20)>>
    /\ calls[i].after = calls[i].before
    /\ state.reminders = calls[i].before
    /\ settled.op = "addReminder"

\* C20: updateReminder / updateConsultation leave the sequence as long as
\* it was and in the same order; an entity with the given id has every
\* field of `updates` at the new value and every other field as before;
\* every other entity, and every other store field, is unchanged.
C20_UpdateMergesMatching ==
  [][\A op \in UpdateOperations :
       Calls(op) =>
         LET key == LastCall.key
             id == LastCall.args.id
             updates == LastCall.args.updates
             old == state[key]
             new == state'[key]
         IN  /\ Len(new) = Len(old)
             /\ \A i \in DOMAIN old :
                  IF old[i].id = id
                    THEN /\ DOMAIN new[i] = DOMAIN old[i] \cup DOMAIN updates
                         /\ \A f \in DOMAIN updates : new[i][f] = updates[f]
                         /\ \A f \in DOMAIN old[i] \ DOMAIN updates :
                              new[i][f] = old[i][f]
                    ELSE new[i] = old[i]
             /\ \A f \in DOMAIN state \ {key} : state'[f] = state[f]]_vars

C20_Witness ==
  \E i \in DOMAIN calls :
    /\ calls[i].op = "updateConsultation"
    /\ calls[i].args = [id |-> "c1",
                        updates |-> [status |-> "cancelled",
                                     scheduledTime |-> Date(11)]]
    /\ calls[i].before = <<Consultation("c2", 10), Consultation("c1", 9)>>
    /\ calls[i].after[1] = Consultation("c2", 10)
    /\ calls[i].after[2] =
         [id |-> "c1", status |-> "cancelled", scheduledTime |-> Date(11)]
    /\ state.consultations = calls[i].after

\* fetchDoctorAvailability returns in this step.
AvailabilityFetched ==
  /\ opResult'.op = "fetchDoctorAvailability"
  /\ opResult' # opResult

\* C21: a fetchDoctorAvailability(doctorId, date) whose read is answered
\* returns without error the empty sequence when the availability
\* collection has no document `${doctorId}_${date}`, and the slots of that
\* document when it has.
C21_AvailabilityOrEmpty ==
  [][(AvailabilityFetched /\ opResult'.cause # "network") =>
       LET docId == AvailabilityDocId(opResult'.args[1], opResult'.args[2])
       IN  /\ opResult'.error = NoError
           /\ IF docId \in DOMAIN availability /\ availability[docId].exists
                THEN opResult'.returned = availability[docId].slots
                ELSE opResult'.returned = <<>>]_vars

C21_Witness ==
  /\ opResult.op = "fetchDoctorAvailability"
  /\ opResult.args = <<"d1", "2099-01-01">>
  /\ opResult.error = NoError
  /\ opResult.returned = <<>>
  /\ availability[AvailabilityDocId("d1", "2025-11-29")].exists
  /\ \E i \in 1..2 :
       availability[AvailabilityDocId("d1", "2025-11-29")].slots[i].isBooked

Position(id) == CHOOSE i \in DOMAIN CollectionOrder : CollectionOrder[i] = id

\* C22: a fetchDoctors that is answered returns each document of the doctor
\* collection whose verified flag is true exactly once and no other, by
\* rating (a missing rating counting as 0) descending, doctors of equal
\* rating in the order of the collection.
C22_VerifiedByRating ==
  (opResult.op = "fetchDoctors" /\ opResult.error = NoError) =>
    LET r == opResult.returned IN
    /\ {r[i].id : i \in DOMAIN r}
         = {d \in doctors : DoctorData(d).verified = TRUE}
    /\ Len(r) = Cardinality({d \in doctors : DoctorData(d).verified = TRUE})
    /\ \A i \in DOMAIN r : r[i] = [id |-> r[i].id] @@ DoctorData(r[i].id)
    /\ \A i, j \in DOMAIN r :
         i < j =>
           /\ RatingOf(r[i]) >= RatingOf(r[j])
           /\ RatingOf(r[i]) = RatingOf(r[j]) =>
                Position(r[i].id) < Position(r[j].id)

C22_Witness ==
  /\ opResult.op = "fetchDoctors"
  /\ opResult.error = NoError
  /\ doctors = CatalogIds
  /\ [i \in 1..5 |-> opResult.returned[i].id] = <<"d2", "d1", "d3", "d5", "d6">>

\* C23: scheduleConsultationReminder schedules a reminder only for a
\* consultation whose status is 'scheduled' and whose fire time (one hour
\* before scheduledTime) is later than the current time.
C23_ReminderOnlyIfScheduled ==
  [][( /\ opResult'.op = "scheduleConsultationReminder"
       /\ notifications' # notifications ) =>
         /\ opResult'.args.status = "scheduled"
         /\ ReminderTime(opResult'.args) > opResult'.now]_vars

\* The consultation of this app's booking is in the remote collection.
Committed == consultations[AutoId(ThisClient)].exists

\* C24: the booking screen adds the consultation to the cache only after
\* the booking transaction has committed, and issues the confirmation (and
\* the reminder) only after that insertion has completed; when
\* bookConsultation fails the cache stays as it was and nothing is
\* notified.
C24_CommitCacheNotify ==
  /\ [][Calls("addConsultation") =>
          /\ Succeeded(ThisClient) /\ Committed
          /\ notifications = {}]_vars
  /\ [][notifications' # notifications =>
          /\ Committed
          /\ bookingScreen.pc = "cached"
          /\ settled.op = "addConsultation" /\ settled.outcome = "fulfilled"
          /\ \E i \in DOMAIN state.consultations :
               state.consultations[i].id = AutoId(ThisClient)
          /\ ConfirmationOf(bookingScreen.consultation) \in notifications']_vars
  /\ []((Done(ThisClient) /\ ~Succeeded(ThisClient)) =>
          /\ state.consultations = <<>>
          /\ storage["consultations"] = Absent
          /\ calls = <<>>
          /\ notifications = {})

C24_Witness ==
  /\ bookingScreen.pc = "done"
  /\ Succeeded(ThisClient) /\ Committed
  /\ Len(state.consultations) = 1
  /\ state.consultations[1].id = AutoId(ThisClient)
  /\ storage["consultations"]
       = Stringify("consultations", state.consultations)
  /\ Cardinality(notifications) = 2

\* C25: searchMedicine tries its lookups in the fixed order FDA brand name,
\* FDA generic name, FDA substance name, RxNav; it returns the result of
\* the first lookup that has one and tries none after it; a lookup that
\* fails or times out is followed by the next one; the not-found error is
\* raised only after all four have given nothing.
C25_FirstNonEmptyStrategy ==
  search.pc # "idle" =>
    /\ Len(search.tried) <= 4
    /\ Len(search.outcomes) = Len(search.tried)
    /\ \A i \in DOMAIN search.tried :
         search.tried[i]
           = << "openfda.brand_name", "openfda.generic_name",
                "openfda.substance_name", "rxnav" >>[i]
    /\ \A i \in DOMAIN search.outcomes :
         search.outcomes[i] = "found" =>
           /\ i = Len(search.outcomes)
           /\ search.pc = "returned"
    /\ search.pc = "returned" =>
         /\ search.tried # <<>>
         /\ search.outcomes[Len(search.outcomes)] = "found"
         /\ search.source = search.tried[Len(search.tried)]
         /\ search.error = NoError
    /\ search.pc = "thrown" =>
         /\ Len(search.tried) = 4
         /\ \A i \in 1..4 : search.outcomes[i] # "found"
         /\ search.error = ErrMedicineNotFound
    /\ search.pc = "querying" =>
         /\ Len(search.tried) < 4
         /\ search.error = NoError

C25_Witness ==
  /\ search.pc = "returned"
  /\ search.outcomes = <<"failed", "timeout", "empty", "found">>
  /\ search.source = "rxnav"

\* C26: an addToHistory made while hydrate() waits for its reads is not
\* lost when hydrate() applies them: the medicine is still in the in-memory
\* history afterwards.
C26_MutationSurvivesHydrate ==
  [][HydrateSettles =>
       \A i \in DOMAIN calls :
         (calls[i].hydrating /\ calls[i].op = "addToHistory") =>
           \E j \in DOMAIN state'.searchHistory :
             state'.searchHistory[j] = calls[i].args]_vars

\* C27: however the booking screen's addConsultation and the history
\* screen's fetchUserConsultations + setConsultations interleave, no two
\* entries of the cached consultations have the same id.
C27_NoDuplicateConsultation == DistinctIds(state.consultations)

\* The consultation this app booked is among the cached consultations.
Cached(entries) ==
  \E i \in DOMAIN entries : entries[i].id = AutoId(ThisClient)

\* C28: a setConsultations that carries what fetchUserConsultations read
\* for this user does not remove from the cache the consultation the
\* booking screen has added to it.
C28_StaleFetchKeepsBooking ==
  [][( /\ Calls("setConsultations")
       /\ historyScreen.userId = PatientId(ThisClient)
       /\ bookingScreen.pc \in {"caching", "cached", "done"}
       /\ Cached(state.consultations) ) =>
         Cached(state'.consultations)]_vars

\* C30: while a user is signed in, every cached consultation, in memory and
\* as persisted, is one of that user's.
C30_CacheBelongsToUser ==
  state.currentUser # Null =>
    /\ \A i \in DOMAIN state.consultations :
         state.consultations[i].patientId = state.currentUser.id
    /\ storage["consultations"] # Absent =>
         \A i \in DOMAIN storage["consultations"].value :
           storage["consultations"].value[i].patientId = state.currentUser.id

\* The slot consultation c was booked for: booked, and held by c.
SlotHeldBy(c) ==
  LET slots == availability[AvailabilityDocId(consultations[c].doctorId,
                                              consultations[c].scheduledTime[1])].slots
      slotIndex == FindIndex(slots, consultations[c].scheduledTime[2])
  IN  /\ slots[slotIndex].isBooked
      /\ slots[slotIndex].consultationId = c

\* p's booking asks for the slot consultation c was booked for.
AsksForSlotOf(p, c) ==
  /\ consultations[c].exists
  /\ book[p].doctorId = consultations[c].doctorId
  /\ book[p].selectedDate = consultations[c].scheduledTime[1]
  /\ book[p].startTime = consultations[c].scheduledTime[2]

\* C29: cancelConsultation(c) changes nothing but the status of
\* consultation c and leaves every availability record as it was; the slot
\* of a consultation, cancelled or not, stays booked and held by it; and a
\* bookConsultation that reads the slot of a cancelled consultation fails
\* with the slot-already-booked error.
C29_CancelKeepsSlotBooked ==
  /\ [][\A c \in ConsultationIds :
          CancelConsultation(c) =>
            /\ availability' = availability
            /\ \A o \in ConsultationIds \ {c} :
                 consultations'[o] = consultations[o]
            /\ consultations[c].exists =>
                 consultations'[c] =
                   [consultations[c] EXCEPT !.status = consultations'[c].status]
            /\ ~consultations[c].exists => consultations'[c] = consultations[c]]_vars
  /\ [](\A c \in ConsultationIds : consultations[c].exists => SlotHeldBy(c))
  /\ [][\A p \in Clients, c \in ConsultationIds :
          ( /\ TxGet(p)
            /\ AsksForSlotOf(p, c)
            /\ consultations[c].status = "cancelled" ) =>
              /\ book'[p].pc = "done"
              /\ book'[p].error = ErrSlotAlreadyBooked]_vars

\* Consultation c1 has been cancelled, its slot is still held by it, and
\* the rival's booking of the same slot is about to read the slot.
C29_Witness ==
  /\ opResult.op = "cancelConsultation"
  /\ opResult.error = NoError
  /\ consultations[AutoId(ThisClient)].exists
  /\ consultations[AutoId(ThisClient)].status = "cancelled"
  /\ SlotHeldBy(AutoId(ThisClient))
  /\ book[Rival].pc = "get"
  /\ AsksForSlotOf(Rival, AutoId(ThisClient))
====
